---- MODULE Spec2Model ----
(***************************************************************************)
(* Model of the Insta360 X4 RTMP streamer.                                 *)
(*                                                                         *)
(*   Spec       RTMPStreamer (src/rtmp_streamer.py): one caller thread     *)
(*              issuing start() / push_frame() / stop(), the consumer      *)
(*              threads running _stream_loop, and the encoder processes.   *)
(*   SpecQueue  the same sink with at most QueueThreads consumer threads,  *)
(*              for the frame-queue properties.                            *)
(*   SpecPacing the pacing of _stream_loop against a clock in ticks.       *)
(*   SpecOrder  the same sink with its first OrderFrames frames told       *)
(*              apart, for the order in which frames reach the encoder.    *)
(*   SpecProc   Insta360Processor (src/insta360_processor.py): start(),    *)
(*              stop(), the capture thread, and the key handling of        *)
(*              calibrate_fisheye_params (src/main.py).                    *)
(*   SpecSlot   the processor with a reader of the frame slot;             *)
(*              SpecSlotFair adds a scheduler.                             *)
(*   SpecMain   main (src/main.py): both objects, started and shut down    *)
(*              in main's order.                                           *)
(*   SpecCalib  the processor under calibration with a scheduler and a     *)
(*              device that never runs out of frames.                      *)
(*   SpecBlend  one call of Insta360Processor._blend_seam.                 *)
(*   SpecCapture the capture thread with _blend_seam inside process_frame. *)
(*   SpecTable  one entry of the projection table and its remapping.       *)
(*   SpecSeam   the lens of every output column and the seam positions.    *)
(***************************************************************************)
EXTENDS Integers, Sequences, FiniteSets, TLC

\* the capacity of the stream queue (rtmp_streamer.py line 32)
QueueCapacity == 10

\* a queue built one slot too large
MaxsizeOffByOne == QueueCapacity + 1
\* the maxsize argument of Queue(maxsize=10), rtmp_streamer.py line 32
Maxsize == 10

\* bound: threads that start() may spawn over the life of one sink (Spec)
MaxThreads == 2
\* bound: the same under SpecQueue
QueueThreads == 1
\* bound: frames handed to push_frame on a running sink
MaxFrames == 11
\* bound: the same under SpecOrder
OrderFrames == 3
\* bound: the last clock tick of SpecPacing
MaxTime == 12
\* bound: output_width of the panorama, in columns (one row is modelled)
OutWidth == 4
\* bound: device frames the camera delivers
MaxReads == 3
\* bound: key presses handled by calibrate_fisheye_params
MaxKeys == 2
\* bound: get_processed_frame() calls
MaxGets == 2
\* bound: output_width of the panoramas handed to _blend_seam
BlendWidth == 10
\* bound: pixel values of the panoramas handed to _blend_seam
MaxColour == 4
\* bound: width of the source frame whose shape _init_mapping_table is given
SrcWidth == 4
\* bound: height of that frame
SrcHeight == 3
\* bound: frame_time = 1.0 / self.fps (rtmp_streamer.py line 123), in clock ticks
FrameTime == 3
\* bound: the output widths drawn for the seam positions run up to this
MaxSeamWidth == 9

\* Python's None, for the handles self.process and self.thread
None == 0
Threads == 1..MaxThreads

Min(a, b) == IF a <= b THEN a ELSE b
Max(a, b) == IF a >= b THEN a ELSE b

VARIABLES
    running,      \* RTMPStreamer.running
    frame_queue,  \* RTMPStreamer.frame_queue: the tags of the queued frames, oldest first
    process,      \* RTMPStreamer.process: None or the encoder the handle refers to
    thread,       \* RTMPStreamer.thread: None or the thread last created by start()
    c_pc,         \* c_pc[i]: position of consumer thread i in _stream_loop
    c_wait,       \* c_wait[i]: the Popen object thread i is waiting on in wait(timeout=2.0)
    enc,          \* enc[i]: state of the encoder process spawned by thread i
    m_pc,         \* position of the caller thread inside start / push_frame / stop
    m_result,     \* "True" / "False": what the last push_frame call returned ("none" before it returns)
    m_exc,        \* exception the last start() / stop() call raised to the caller, or "none"
    m_wait,       \* the Popen object stop() is waiting on in wait(timeout=5.0)
    nextTag,      \* number of frames that entered push_frame's queueing section
    stops,        \* consecutive stop() calls since the last start() call (saturates at 2)
    removed,      \* TRUE once the consumer or stop() has taken a frame out of the queue
    c_frame,      \* c_frame[i]: local frame of thread i (line 134), as the frame's tag
    written       \* written[i]: tag of the last frame written to the stdin of the encoder spawned by thread i

orderVars == <<c_frame, written>>

sinkVars == <<running, frame_queue, process, thread, c_pc, c_wait, enc,
              m_pc, m_result, m_exc, m_wait, nextTag, stops, removed, orderVars>>

\* the pacing of _stream_loop (rtmp_streamer.py lines 123-146), in clock ticks
VARIABLES
    clock,            \* time.time()
    t_pc,             \* position of the consumer in the paced loop
    backlog,          \* frames waiting in the queue
    next_frame_time,  \* local next_frame_time
    current_time,     \* local current_time (line 137)
    wait_time,        \* local wait_time (line 138)
    emitted,          \* number of frames dequeued and given a deadline so far
    first_deadline,   \* next_frame_time as set at line 124
    late,             \* TRUE once time.time() at line 143 exceeded the deadline by
                      \* more than one frame interval
    dequeue_deadline  \* next_frame_time as it was when the frame in hand was dequeued (line 134)

paceVars == <<clock, t_pc, backlog, next_frame_time, current_time, wait_time,
              emitted, first_deadline, late, dequeue_deadline>>

\* Insta360Processor (insta360_processor.py) and its callers in main.py
VARIABLES
    p_running,        \* Insta360Processor.running
    has_thread,       \* TRUE once the attribute self.thread exists (set only at line 87)
    cap,              \* self.cap: "none", or a VideoCapture that is "failed", "open" or "released"
    fisheye_params,   \* self.fisheye_params, in units of adjustment_step (0.01)
    map_x,            \* self.map_x: NoTable (None) or a table
    map_y,            \* self.map_y
    frame,            \* self.frame: None or the number of the device frame held
    processed_frame,  \* self.processed_frame
    k_pc,             \* position of the capture thread in _capture_loop / process_frame
    k_frame,          \* the device frame the capture thread is working on
    k_i,              \* the output column _init_mapping_table has reached
    k_mx,             \* local map_x of _init_mapping_table
    k_my,             \* local map_y of _init_mapping_table
    k_lx,             \* the map_x argument evaluated for cv2.remap (line 245)
    k_ly,             \* the map_y argument evaluated for cv2.remap
    reads,            \* device frames delivered so far
    a_pc,             \* position of the main thread inside a processor call
    a_exc,            \* exception the last processor start() / stop() raised, or "none"
    a_stops,          \* consecutive processor stop() calls since the last start() (saturates at 2)
    keys,             \* calibration key presses handled so far
    k_ret,            \* local ret of _capture_loop (line 102): "True" / "False" ("none" before the first read)
    stored,           \* number of times the capture thread has stored a frame pair (lines 112-114)
    gets,             \* get_processed_frame() calls so far
    g_result          \* what the last get_processed_frame() call returned

\* what a reader of the processor holds
readerVars == <<gets, g_result>>

procVars == <<p_running, has_thread, cap, fisheye_params, map_x, map_y, frame,
              processed_frame, k_pc, k_frame, k_i, k_mx, k_my, k_lx, k_ly, reads,
              a_pc, a_exc, a_stops, keys, k_ret, stored, readerVars>>

\* one call of Insta360Processor._blend_seam (lines 168-230), on one row of
\* a panorama; a pixel is one number
VARIABLES
    b_pc,             \* position inside _blend_seam, "returned" or "raised"
    b_pan,            \* argument panorama
    b_ow,             \* self.overlap_width
    b_left,           \* blended_left
    b_right,          \* blended_right
    b_out             \* the result returned

blendVars == <<b_pc, b_pan, b_ow, b_left, b_right, b_out>>

\* one entry of the table of _init_mapping_table (lines 123-166) and the
\* output pixel cv2.remap makes of it (lines 245-247)
VARIABLES
    e_pc,             \* "idle", "stored" (entry computed) or "remapped"
    e_r0,             \* TRUE when r == 0 at line 147
    e_x,              \* x_fisheye (line 158)
    e_y,              \* y_fisheye (line 159)
    e_map,            \* <<map_x[y, x], map_y[y, x]>>
    e_pixel           \* what cv2.remap puts at the output pixel

tableVars == <<e_pc, e_r0, e_x, e_y, e_map, e_pixel>>

\* the lens each output column is taken from (_init_mapping_table, lines
\* 128-143) next to the columns _blend_seam blends (lines 178-209)
VARIABLES
    s_pc,             \* "idle", "build" (inside the column loop) or "blended"
    s_w,              \* self.output_width
    s_ow,             \* self.overlap_width
    s_x,              \* x of the column loop (line 129)
    s_lens,           \* the lens chosen for columns 0..x-1 (lines 140-143)
    s_seam            \* the seam positions of _blend_seam

seamVars == <<s_pc, s_w, s_ow, s_x, s_lens, s_seam>>

nonSinkVars == <<paceVars, procVars, blendVars, tableVars, seamVars>>
nonPaceVars == <<sinkVars, procVars, blendVars, tableVars, seamVars>>
nonProcVars == <<sinkVars, paceVars, blendVars, tableVars, seamVars>>
nonBlendVars == <<sinkVars, paceVars, procVars, tableVars, seamVars>>
nonTableVars == <<sinkVars, paceVars, procVars, blendVars, seamVars>>
nonSeamVars == <<sinkVars, paceVars, procVars, blendVars, tableVars>>

vars == <<sinkVars, paceVars, procVars, blendVars, tableVars, seamVars>>

(***************************************************************************)
(* queue.Queue as used by the sink                                         *)
(***************************************************************************)
\* Queue.full() and Queue.empty(); maxsize <= 0 means an unbounded queue
QFull(q) == Maxsize > 0 /\ Len(q) >= Maxsize
QEmpty(q) == Len(q) = 0

\* Queue.put_nowait succeeds iff there is a free slot; otherwise it raises Full
CanPut(q) == Maxsize <= 0 \/ Len(q) < Maxsize

\* Queue.get_nowait inside try/except: pass -- removes the head if there is one
EvictNewest(q) == IF q = <<>> THEN q ELSE SubSeq(q, 1, Len(q) - 1)
EvictOldest(q) == IF q = <<>> THEN q ELSE Tail(q)

(***************************************************************************)
(* RTMPStreamer.__init__                                                   *)
(***************************************************************************)
SinkInit ==
    /\ running = FALSE
    /\ frame_queue = <<>>
    /\ process = None
    /\ thread = None
    /\ c_pc = [i \in Threads |-> "unborn"]
    /\ c_wait = [i \in Threads |-> None]
    /\ enc = [i \in Threads |-> "unspawned"]
    /\ m_pc = "idle"
    /\ m_result = "none"
    /\ m_exc = "none"
    /\ m_wait = None
    /\ nextTag = 0
    /\ stops = 0
    /\ removed = FALSE
    /\ c_frame = [i \in Threads |-> None]
    /\ written = [i \in Threads |-> None]

NumSpawned == Cardinality({i \in Threads : c_pc[i] # "unborn"})

(***************************************************************************)
(* RTMPStreamer.start                                                      *)
(***************************************************************************)
Start(limit) ==
    /\ m_pc = "idle"
    /\ m_exc' = "none"
    /\ stops' = 0
    /\ IF running
         THEN UNCHANGED <<running, thread, c_pc>>
         ELSE /\ NumSpawned < limit
              /\ running' = TRUE
              /\ thread' = NumSpawned + 1
              /\ c_pc' = [c_pc EXCEPT ![NumSpawned + 1] = "popen"]
    /\ UNCHANGED <<frame_queue, process, c_wait, enc, m_pc, m_result, m_wait,
                   nextTag, removed>>
    /\ UNCHANGED orderVars
    /\ UNCHANGED nonSinkVars

(***************************************************************************)
(* RTMPStreamer.push_frame                                                 *)
(***************************************************************************)
\* push_frame entered without the test of self.running
PushCallNoCheck ==
    /\ m_pc = "idle"
    /\ nextTag < MaxFrames
    /\ m_result' = "none"
    /\ m_pc' = "push_full"
    /\ nextTag' = nextTag + 1
    /\ UNCHANGED <<running, frame_queue, process, thread, c_pc, c_wait, enc,
                   m_exc, m_wait, stops, removed>>
    /\ UNCHANGED orderVars
    /\ UNCHANGED nonSinkVars

\* line 75: if not self.running; a frame that passes the test gets the next tag
PushCall ==
    /\ m_pc = "idle"
    /\ m_result' = "none"
    /\ IF ~running
         THEN /\ m_pc' = "push_reject"
              /\ UNCHANGED nextTag
         ELSE /\ nextTag < MaxFrames
              /\ m_pc' = "push_full"
              /\ nextTag' = nextTag + 1
    /\ UNCHANGED <<running, frame_queue, process, thread, c_pc, c_wait, enc,
                   m_exc, m_wait, stops, removed>>
    /\ UNCHANGED orderVars
    /\ UNCHANGED nonSinkVars

\* line 76: return False
PushReject ==
    /\ m_pc = "push_reject"
    /\ m_result' = "False"
    /\ m_pc' = "idle"
    /\ UNCHANGED <<running, frame_queue, process, thread, c_pc, c_wait, enc,
                   m_exc, m_wait, nextTag, stops, removed>>
    /\ UNCHANGED orderVars
    /\ UNCHANGED nonSinkVars

\* line 83: if self.frame_queue.full()
PushFullNeverEvicts ==
    /\ m_pc = "push_full"
    /\ m_pc' = "push_put"
    /\ UNCHANGED <<running, frame_queue, process, thread, c_pc, c_wait, enc,
                   m_result, m_exc, m_wait, nextTag, stops, removed>>
    /\ UNCHANGED orderVars
    /\ UNCHANGED nonSinkVars

PushFull ==
    /\ m_pc = "push_full"
    /\ m_pc' = IF QFull(frame_queue) THEN "push_evict" ELSE "push_put"
    /\ UNCHANGED <<running, frame_queue, process, thread, c_pc, c_wait, enc,
                   m_result, m_exc, m_wait, nextTag, stops, removed>>
    /\ UNCHANGED orderVars
    /\ UNCHANGED nonSinkVars

\* lines 84-87: get_nowait, any exception swallowed
PushEvictDropsNewest ==
    /\ m_pc = "push_evict"
    /\ frame_queue' = EvictNewest(frame_queue)
    /\ m_pc' = "push_put"
    /\ UNCHANGED <<running, process, thread, c_pc, c_wait, enc,
                   m_result, m_exc, m_wait, nextTag, stops, removed>>
    /\ UNCHANGED orderVars
    /\ UNCHANGED nonSinkVars

PushEvict ==
    /\ m_pc = "push_evict"
    /\ frame_queue' = EvictOldest(frame_queue)
    /\ m_pc' = "push_put"
    /\ UNCHANGED <<running, process, thread, c_pc, c_wait, enc,
                   m_result, m_exc, m_wait, nextTag, stops, removed>>
    /\ UNCHANGED orderVars
    /\ UNCHANGED nonSinkVars

\* lines 89-93: put_nowait; True on success, False when it raises
PushPut ==
    /\ m_pc = "push_put"
    /\ IF CanPut(frame_queue)
         THEN /\ frame_queue' = Append(frame_queue, nextTag)
              /\ m_result' = "True"
         ELSE /\ m_result' = "False"
              /\ UNCHANGED frame_queue
    /\ m_pc' = "idle"
    /\ UNCHANGED <<running, process, thread, c_pc, c_wait, enc,
                   m_exc, m_wait, nextTag, stops, removed>>
    /\ UNCHANGED orderVars
    /\ UNCHANGED nonSinkVars

(***************************************************************************)
(* RTMPStreamer.stop                                                       *)
(***************************************************************************)
\* line 48
StopCall ==
    /\ m_pc = "idle"
    /\ running' = FALSE
    /\ m_exc' = "none"
    /\ stops' = IF stops < 2 THEN stops + 1 ELSE stops
    /\ m_pc' = "stop_join"
    /\ UNCHANGED <<frame_queue, process, thread, c_pc, c_wait, enc, m_result,
                   m_wait, nextTag, removed>>
    /\ UNCHANGED orderVars
    /\ UNCHANGED nonSinkVars

\* lines 50-51: no thread, or join(timeout=1.0) returns: the thread has ended
\* or the timeout has expired with the thread still alive
StopJoin ==
    /\ m_pc = "stop_join"
    /\ m_pc' = "stop_proc"
    /\ UNCHANGED <<running, frame_queue, process, thread, c_pc, c_wait, enc,
                   m_result, m_exc, m_wait, nextTag, stops, removed>>
    /\ UNCHANGED orderVars
    /\ UNCHANGED nonSinkVars

\* line 53: if self.process is not None
StopProc ==
    /\ m_pc = "stop_proc"
    /\ m_pc' = IF process = None THEN "stop_drain" ELSE "stop_term"
    /\ UNCHANGED <<running, frame_queue, process, thread, c_pc, c_wait, enc,
                   m_result, m_exc, m_wait, nextTag, stops, removed>>
    /\ UNCHANGED orderVars
    /\ UNCHANGED nonSinkVars

\* an AttributeError ('NoneType' object has no attribute ...) leaves stop():
\* the only handler is for subprocess.TimeoutExpired
StopRaises ==
    /\ m_exc' = "AttributeError"
    /\ m_pc' = "idle"
    /\ m_wait' = None
    /\ UNCHANGED <<running, frame_queue, process, thread, c_pc, c_wait, enc,
                   m_result, nextTag, stops, removed>>

\* line 55: self.process.terminate()
StopTerminate ==
    /\ m_pc = "stop_term"
    /\ IF process = None
         THEN StopRaises
         ELSE /\ m_pc' = "stop_wait"
              /\ UNCHANGED <<running, frame_queue, process, thread, c_pc, c_wait,
                             enc, m_result, m_exc, m_wait, nextTag, stops, removed>>
    /\ UNCHANGED orderVars
    /\ UNCHANGED nonSinkVars

\* line 56: self.process.wait(timeout=5.0) -- the handle is read, then waited on
StopWait ==
    /\ m_pc = "stop_wait"
    /\ IF process = None
         THEN StopRaises
         ELSE /\ m_wait' = process
              /\ m_pc' = "stop_waiting"
              /\ UNCHANGED <<running, frame_queue, process, thread, c_pc, c_wait,
                             enc, m_result, m_exc, nextTag, stops, removed>>
    /\ UNCHANGED orderVars
    /\ UNCHANGED nonSinkVars

\* wait returns once the encoder has exited, or raises TimeoutExpired (line 57)
StopWaiting ==
    /\ m_pc = "stop_waiting"
    /\ m_pc' = IF enc[m_wait] = "exited" THEN "stop_clear" ELSE "stop_kill"
    /\ m_wait' = None
    /\ UNCHANGED <<running, frame_queue, process, thread, c_pc, c_wait, enc,
                   m_result, m_exc, nextTag, stops, removed>>
    /\ UNCHANGED orderVars
    /\ UNCHANGED nonSinkVars

\* line 58: self.process.kill()
StopKill ==
    /\ m_pc = "stop_kill"
    /\ IF process = None
         THEN StopRaises
         ELSE /\ enc' = [enc EXCEPT ![process] = "exited"]
              /\ m_pc' = "stop_clear"
              /\ UNCHANGED <<running, frame_queue, process, thread, c_pc, c_wait,
                             m_result, m_exc, m_wait, nextTag, stops, removed>>
    /\ UNCHANGED orderVars
    /\ UNCHANGED nonSinkVars

\* line 59: self.process = None
StopClear ==
    /\ m_pc = "stop_clear"
    /\ process' = None
    /\ m_pc' = "stop_drain"
    /\ UNCHANGED <<running, frame_queue, thread, c_pc, c_wait, enc,
                   m_result, m_exc, m_wait, nextTag, stops, removed>>
    /\ UNCHANGED orderVars
    /\ UNCHANGED nonSinkVars

\* lines 62-66: one iteration of the drain loop; stop() returns on empty
StopDrain ==
    /\ m_pc = "stop_drain"
    /\ IF QEmpty(frame_queue)
         THEN /\ m_pc' = "idle"
              /\ UNCHANGED <<frame_queue, removed>>
         ELSE /\ frame_queue' = EvictOldest(frame_queue)
              /\ removed' = TRUE
              /\ UNCHANGED m_pc
    /\ UNCHANGED <<running, process, thread, c_pc, c_wait, enc,
                   m_result, m_exc, m_wait, nextTag, stops>>
    /\ UNCHANGED orderVars
    /\ UNCHANGED nonSinkVars

(***************************************************************************)
(* RTMPStreamer._stream_loop, run by consumer thread i                     *)
(***************************************************************************)
\* lines 117-124: Popen; the handle is stored in self.process
Popen(i) ==
    /\ c_pc[i] = "popen"
    /\ enc' = [enc EXCEPT ![i] = "alive"]
    /\ process' = i
    /\ c_pc' = [c_pc EXCEPT ![i] = "loop"]
    /\ UNCHANGED <<running, frame_queue, thread, c_wait, m_pc, m_result, m_exc,
                   m_wait, nextTag, stops, removed>>
    /\ UNCHANGED orderVars
    /\ UNCHANGED nonSinkVars

\* line 127, left operand: while self.running
LoopRunning(i) ==
    /\ c_pc[i] = "loop"
    /\ c_pc' = [c_pc EXCEPT ![i] = IF running THEN "loop_poll" ELSE "fin_poll"]
    /\ UNCHANGED <<running, frame_queue, process, thread, c_wait, enc, m_pc,
                   m_result, m_exc, m_wait, nextTag, stops, removed>>
    /\ UNCHANGED orderVars
    /\ UNCHANGED nonSinkVars

\* line 127, right operand: self.process.poll() is None.  On a None handle the
\* AttributeError is caught at line 150 and control reaches the finally block.
LoopPoll(i) ==
    /\ c_pc[i] = "loop_poll"
    /\ c_pc' = [c_pc EXCEPT ![i] =
                  IF process # None /\ enc[process] = "alive" THEN "empty" ELSE "fin_poll"]
    /\ UNCHANGED <<running, frame_queue, process, thread, c_wait, enc, m_pc,
                   m_result, m_exc, m_wait, nextTag, stops, removed>>
    /\ UNCHANGED orderVars
    /\ UNCHANGED nonSinkVars

\* lines 128-131: if self.frame_queue.empty(): sleep(0.001); continue
CheckEmpty(i) ==
    /\ c_pc[i] = "empty"
    /\ c_pc' = [c_pc EXCEPT ![i] = IF QEmpty(frame_queue) THEN "loop" ELSE "get"]
    /\ UNCHANGED <<running, frame_queue, process, thread, c_wait, enc, m_pc,
                   m_result, m_exc, m_wait, nextTag, stops, removed>>
    /\ UNCHANGED orderVars
    /\ UNCHANGED nonSinkVars

\* line 134: the blocking get(); it waits while the queue is empty.
\* Lines 137-143 (pacing) touch no shared state and are part of this step.
GetFrame(i) ==
    /\ c_pc[i] = "get"
    /\ ~QEmpty(frame_queue)
    /\ frame_queue' = Tail(frame_queue)
    /\ removed' = TRUE
    /\ c_pc' = [c_pc EXCEPT ![i] = "write"]
    /\ UNCHANGED <<running, process, thread, c_wait, enc, m_pc,
                   m_result, m_exc, m_wait, nextTag, stops>>
    /\ UNCHANGED nonSinkVars

\* ... where it does not matter which frame the thread holds
Get(i) == GetFrame(i) /\ UNCHANGED orderVars

\* ... with the frame taken kept in the thread's local frame
GetTagged(i) ==
    /\ GetFrame(i)
    /\ c_frame' = [c_frame EXCEPT ![i] = Head(frame_queue)]
    /\ UNCHANGED written

\* line 146: self.process.stdin.write(...); a None handle or a dead encoder
\* (BrokenPipeError) raises into the handlers at lines 148-151
WriteFrame(i) ==
    /\ c_pc[i] = "write"
    /\ c_pc' = [c_pc EXCEPT ![i] =
                  IF process # None /\ enc[process] = "alive" THEN "loop" ELSE "fin_poll"]
    /\ UNCHANGED <<running, frame_queue, process, thread, c_wait, enc, m_pc,
                   m_result, m_exc, m_wait, nextTag, stops, removed>>
    /\ UNCHANGED nonSinkVars

\* ... where it does not matter which frame is written
Write(i) == WriteFrame(i) /\ UNCHANGED orderVars

\* ... with the encoder the handle names at that moment receiving the
\* thread's local frame
WriteTagged(i) ==
    /\ WriteFrame(i)
    /\ written' = IF process # None /\ enc[process] = "alive"
                    THEN [written EXCEPT ![process] = c_frame[i]]
                    ELSE written
    /\ UNCHANGED c_frame

\* line 154: if self.process.poll() is None -- unguarded; on a None handle the
\* AttributeError leaves the finally block and ends the thread
FinPoll(i) ==
    /\ c_pc[i] = "fin_poll"
    /\ c_pc' = [c_pc EXCEPT ![i] =
                  IF process = None THEN "crashed"
                  ELSE IF enc[process] = "alive" THEN "fin_close" ELSE "fin_clear"]
    /\ UNCHANGED <<running, frame_queue, process, thread, c_wait, enc, m_pc,
                   m_result, m_exc, m_wait, nextTag, stops, removed>>
    /\ UNCHANGED orderVars
    /\ UNCHANGED nonSinkVars

\* line 156: self.process.stdin.close(); any exception goes to line 159
FinClose(i) ==
    /\ c_pc[i] = "fin_close"
    /\ c_pc' = [c_pc EXCEPT ![i] = IF process = None THEN "fin_kill" ELSE "fin_wait"]
    /\ UNCHANGED <<running, frame_queue, process, thread, c_wait, enc, m_pc,
                   m_result, m_exc, m_wait, nextTag, stops, removed>>
    /\ UNCHANGED orderVars
    /\ UNCHANGED nonSinkVars

\* line 157: self.process.wait(timeout=2.0) -- the handle is read, then waited on
FinWait(i) ==
    /\ c_pc[i] = "fin_wait"
    /\ IF process = None
         THEN /\ c_pc' = [c_pc EXCEPT ![i] = "fin_kill"]
              /\ UNCHANGED c_wait
         ELSE /\ c_pc' = [c_pc EXCEPT ![i] = "fin_waiting"]
              /\ c_wait' = [c_wait EXCEPT ![i] = process]
    /\ UNCHANGED <<running, frame_queue, process, thread, enc, m_pc,
                   m_result, m_exc, m_wait, nextTag, stops, removed>>
    /\ UNCHANGED orderVars
    /\ UNCHANGED nonSinkVars

\* wait returns once the encoder has exited, or raises TimeoutExpired (line 158)
FinWaiting(i) ==
    /\ c_pc[i] = "fin_waiting"
    /\ c_pc' = [c_pc EXCEPT ![i] =
                  IF enc[c_wait[i]] = "exited" THEN "fin_clear" ELSE "fin_kill"]
    /\ c_wait' = [c_wait EXCEPT ![i] = None]
    /\ UNCHANGED <<running, frame_queue, process, thread, enc, m_pc,
                   m_result, m_exc, m_wait, nextTag, stops, removed>>
    /\ UNCHANGED orderVars
    /\ UNCHANGED nonSinkVars

\* line 159: self.process.kill() inside the except clause; on a None handle the
\* AttributeError ends the thread
FinKill(i) ==
    /\ c_pc[i] = "fin_kill"
    /\ IF process = None
         THEN /\ c_pc' = [c_pc EXCEPT ![i] = "crashed"]
              /\ UNCHANGED enc
         ELSE /\ enc' = [enc EXCEPT ![process] = "exited"]
              /\ c_pc' = [c_pc EXCEPT ![i] = "fin_clear"]
    /\ UNCHANGED <<running, frame_queue, process, thread, c_wait, m_pc,
                   m_result, m_exc, m_wait, nextTag, stops, removed>>
    /\ UNCHANGED orderVars
    /\ UNCHANGED nonSinkVars

\* line 161: self.process = None; the thread ends
FinClear(i) ==
    /\ c_pc[i] = "fin_clear"
    /\ process' = None
    /\ c_pc' = [c_pc EXCEPT ![i] = "done"]
    /\ UNCHANGED <<running, frame_queue, thread, c_wait, enc, m_pc,
                   m_result, m_exc, m_wait, nextTag, stops, removed>>
    /\ UNCHANGED orderVars
    /\ UNCHANGED nonSinkVars

\* the encoder process ends by itself (stream error, end of input, SIGTERM)
EncoderExit(i) ==
    /\ enc[i] = "alive"
    /\ enc' = [enc EXCEPT ![i] = "exited"]
    /\ UNCHANGED <<running, frame_queue, process, thread, c_pc, c_wait, m_pc,
                   m_result, m_exc, m_wait, nextTag, stops, removed>>
    /\ UNCHANGED orderVars
    /\ UNCHANGED nonSinkVars

Caller ==
    \/ PushCall
    \/ PushReject
    \/ PushFull
    \/ PushEvict
    \/ PushPut
    \/ StopCall
    \/ StopJoin
    \/ StopProc
    \/ StopTerminate
    \/ StopWait
    \/ StopWaiting
    \/ StopKill
    \/ StopClear
    \/ StopDrain

Consumer(i) ==
    \/ Popen(i)
    \/ LoopRunning(i)
    \/ LoopPoll(i)
    \/ CheckEmpty(i)
    \/ Get(i)
    \/ Write(i)
    \/ FinPoll(i)
    \/ FinClose(i)
    \/ FinWait(i)
    \/ FinWaiting(i)
    \/ FinKill(i)
    \/ FinClear(i)

\* the consumer thread with the frames it takes and writes told apart
TaggedConsumer(i) ==
    \/ Popen(i)
    \/ LoopRunning(i)
    \/ LoopPoll(i)
    \/ CheckEmpty(i)
    \/ GetTagged(i)
    \/ WriteTagged(i)
    \/ FinPoll(i)
    \/ FinClose(i)
    \/ FinWait(i)
    \/ FinWaiting(i)
    \/ FinKill(i)
    \/ FinClear(i)

\* push_frame entered while few frames have been pushed: the queue stays
\* far from full and line 84 is not reached
PushCallEarly == nextTag < OrderFrames /\ PushCall

(***************************************************************************)
(* Pacing of _stream_loop on a running sink with a live encoder            *)
(* (SpecPacing).  Time is counted in clock ticks.                          *)
(***************************************************************************)
PaceInit ==
    /\ clock = 0
    /\ t_pc = "start"
    /\ backlog = 0
    /\ next_frame_time = 0
    /\ current_time = 0
    /\ wait_time = 0
    /\ emitted = 0
    /\ first_deadline = 0
    /\ late = FALSE
    /\ dequeue_deadline = 0

\* time passes, at any point of the loop
Tick ==
    /\ clock < MaxTime
    /\ clock' = clock + 1
    /\ UNCHANGED <<t_pc, backlog, next_frame_time, current_time, wait_time,
                   emitted, first_deadline, late>>
    /\ UNCHANGED dequeue_deadline
    /\ UNCHANGED nonPaceVars

\* the producer's push_frame (lines 83-90): the queue gains a frame unless full
PacePush ==
    /\ backlog' = IF backlog < Maxsize THEN backlog + 1 ELSE backlog
    /\ backlog' # backlog
    /\ UNCHANGED <<clock, t_pc, next_frame_time, current_time, wait_time,
                   emitted, first_deadline, late>>
    /\ UNCHANGED dequeue_deadline
    /\ UNCHANGED nonPaceVars

\* lines 123-124: frame_time = 1.0 / self.fps; next_frame_time = time.time()
PaceStart ==
    /\ t_pc = "start"
    /\ next_frame_time' = clock
    /\ first_deadline' = clock
    /\ t_pc' = "empty"
    /\ UNCHANGED <<clock, backlog, current_time, wait_time, emitted, late>>
    /\ UNCHANGED dequeue_deadline
    /\ UNCHANGED nonPaceVars

\* lines 128-134: while the queue is empty the loop idles (sleep(0.001);
\* continue); otherwise it takes the next frame
PaceGet ==
    /\ t_pc = "empty"
    /\ backlog > 0
    /\ backlog' = backlog - 1
    /\ dequeue_deadline' = next_frame_time
    /\ t_pc' = "now"
    /\ UNCHANGED <<clock, next_frame_time, current_time, wait_time, emitted,
                   first_deadline, late>>
    /\ UNCHANGED nonPaceVars

\* the difference without the clamp at 0
WaitTimeUnclamped(nft, now) == nft - now

\* line 138: wait_time = max(0, next_frame_time - current_time)
WaitTime(nft, now) == Max(0, nft - now)

\* lines 137-138
PaceNow ==
    /\ t_pc = "now"
    /\ current_time' = clock
    /\ wait_time' = WaitTime(next_frame_time, clock)
    /\ t_pc' = "sleep"
    /\ UNCHANGED <<clock, backlog, next_frame_time, emitted, first_deadline, late>>
    /\ UNCHANGED dequeue_deadline
    /\ UNCHANGED nonPaceVars

\* a sleep that may return at once
PaceSleepReturnsEarly ==
    /\ t_pc = "sleep"
    /\ t_pc' = "update"
    /\ UNCHANGED <<clock, backlog, next_frame_time, current_time, wait_time,
                   emitted, first_deadline, late>>
    /\ UNCHANGED dequeue_deadline
    /\ UNCHANGED nonPaceVars

\* lines 139-140: time.sleep(wait_time) returns no earlier than wait_time later
PaceSleep ==
    /\ t_pc = "sleep"
    /\ wait_time > 0 => clock >= current_time + wait_time
    /\ t_pc' = "update"
    /\ UNCHANGED <<clock, backlog, next_frame_time, current_time, wait_time,
                   emitted, first_deadline, late>>
    /\ UNCHANGED dequeue_deadline
    /\ UNCHANGED nonPaceVars

\* line 143: next_frame_time = max(time.time(), next_frame_time + frame_time)
NextFrameTimeFromNow(now, nft) == now + FrameTime
NextFrameTime(now, nft) == Max(now, nft + FrameTime)

PaceUpdate ==
    /\ t_pc = "update"
    /\ next_frame_time' = NextFrameTime(clock, next_frame_time)
    /\ late' = (late \/ clock > next_frame_time + FrameTime)
    /\ emitted' = emitted + 1
    /\ t_pc' = "write"
    /\ UNCHANGED <<clock, backlog, current_time, wait_time, first_deadline>>
    /\ UNCHANGED dequeue_deadline
    /\ UNCHANGED nonPaceVars

\* line 146: the frame is written to the encoder's stdin
PaceWrite ==
    /\ t_pc = "write"
    /\ t_pc' = "empty"
    /\ UNCHANGED <<clock, backlog, next_frame_time, current_time, wait_time,
                   emitted, first_deadline, late>>
    /\ UNCHANGED dequeue_deadline
    /\ UNCHANGED nonPaceVars

NextPacing ==
    \/ Tick
    \/ PacePush
    \/ PaceStart
    \/ PaceGet
    \/ PaceNow
    \/ PaceSleep
    \/ PaceUpdate
    \/ PaceWrite

(***************************************************************************)
(* Insta360Processor and interactive calibration (SpecProc)                *)
(***************************************************************************)
NoTable == <<>>
Lenses == {"left", "right"}
Columns == 0..(OutWidth - 1)

\* lines 37-50: the built-in calibration, in hundredths
DefaultParams ==
    [left  |-> [cx |-> 0,   cy |-> 50, radius |-> 48, offset_angle |-> 0],
     right |-> [cx |-> 100, cy |-> 50, radius |-> 48, offset_angle |-> 0]]

\* lines 131, 140-143: theta = 2*pi*x/W - pi; the right lens iff -pi/2 <= theta <= pi/2
LensAt(x) == IF OutWidth <= 4 * x /\ 4 * x <= 3 * OutWidth THEN "right" ELSE "left"

\* lines 155-164: the entries of column x, as the calibration values they are
\* computed from: map_x from cx and radius, map_y from cy and radius
CellX(params, x) ==
    <<LensAt(x), params[LensAt(x)].cx, params[LensAt(x)].radius,
      params[LensAt(x)].offset_angle>>
CellY(params, x) ==
    <<LensAt(x), params[LensAt(x)].cy, params[LensAt(x)].radius,
      params[LensAt(x)].offset_angle>>

\* the tables _init_mapping_table returns when the calibration stays at params
TableX(params) == [c \in 1..OutWidth |-> CellX(params, c - 1)]
TableY(params) == [c \in 1..OutWidth |-> CellY(params, c - 1)]

\* Insta360Processor.__init__ (lines 24-59), no fisheye_params.json present
ProcInit ==
    /\ p_running = FALSE
    /\ has_thread = FALSE
    /\ cap = "none"
    /\ fisheye_params = DefaultParams
    /\ map_x = NoTable
    /\ map_y = NoTable
    /\ frame = None
    /\ processed_frame = None
    /\ k_pc = "unborn"
    /\ k_frame = None
    /\ k_i = 0
    /\ k_mx = NoTable
    /\ k_my = NoTable
    /\ k_lx = NoTable
    /\ k_ly = NoTable
    /\ reads = 0
    /\ a_pc = "idle"
    /\ a_exc = "none"
    /\ a_stops = 0
    /\ keys = 0
    /\ k_ret = "none"
    /\ stored = 0
    /\ gets = 0
    /\ g_result = None

CaptureAlive == k_pc \notin {"unborn", "done", "crashed"}

\* Insta360Processor.start (lines 73-89), the camera opens
ProcStartOpens ==
    /\ a_pc = "idle"
    /\ a_stops' = 0
    /\ a_exc' = "none"
    /\ IF p_running
         THEN UNCHANGED <<cap, p_running, has_thread, k_pc>>
         ELSE /\ ~CaptureAlive
              /\ cap' = "open"
              /\ p_running' = TRUE
              /\ has_thread' = TRUE
              /\ k_pc' = "loop"
    /\ UNCHANGED <<fisheye_params, map_x, map_y, frame, processed_frame, k_frame,
                   k_i, k_mx, k_my, k_lx, k_ly, reads, a_pc, keys>>
    /\ UNCHANGED <<readerVars, k_ret, stored>>
    /\ UNCHANGED nonProcVars

\* Insta360Processor.start (lines 73-80), the camera does not open: ValueError
ProcStartFails ==
    /\ a_pc = "idle"
    /\ ~p_running
    /\ a_stops' = 0
    /\ cap' = "failed"
    /\ a_exc' = "ValueError"
    /\ UNCHANGED <<p_running, has_thread, fisheye_params, map_x, map_y, frame,
                   processed_frame, k_pc, k_frame, k_i, k_mx, k_my, k_lx, k_ly,
                   reads, a_pc, keys>>
    /\ UNCHANGED <<readerVars, k_ret, stored>>
    /\ UNCHANGED nonProcVars

\* line 93
ProcStopCall ==
    /\ a_pc = "idle"
    /\ p_running' = FALSE
    /\ a_exc' = "none"
    /\ a_stops' = IF a_stops < 2 THEN a_stops + 1 ELSE a_stops
    /\ a_pc' = "stop_thread"
    /\ UNCHANGED <<has_thread, cap, fisheye_params, map_x, map_y, frame,
                   processed_frame, k_pc, k_frame, k_i, k_mx, k_my, k_lx, k_ly,
                   reads, keys>>
    /\ UNCHANGED <<readerVars, k_ret, stored>>
    /\ UNCHANGED nonProcVars

\* line 94: if self.thread is not None -- an AttributeError when start() never
\* reached line 87
ProcStopThread ==
    /\ a_pc = "stop_thread"
    /\ IF has_thread
         THEN /\ a_pc' = "stop_join"
              /\ UNCHANGED a_exc
         ELSE /\ a_pc' = "idle"
              /\ a_exc' = "AttributeError"
    /\ UNCHANGED <<p_running, has_thread, cap, fisheye_params, map_x, map_y, frame,
                   processed_frame, k_pc, k_frame, k_i, k_mx, k_my, k_lx, k_ly,
                   reads, a_stops, keys>>
    /\ UNCHANGED <<readerVars, k_ret, stored>>
    /\ UNCHANGED nonProcVars

\* line 95: self.thread.join() -- waits, without a timeout, for the thread to end
ProcStopJoin ==
    /\ a_pc = "stop_join"
    /\ ~CaptureAlive
    /\ a_pc' = "stop_release"
    /\ UNCHANGED <<p_running, has_thread, cap, fisheye_params, map_x, map_y, frame,
                   processed_frame, k_pc, k_frame, k_i, k_mx, k_my, k_lx, k_ly,
                   reads, a_exc, a_stops, keys>>
    /\ UNCHANGED <<readerVars, k_ret, stored>>
    /\ UNCHANGED nonProcVars

\* lines 96-97: if self.cap is not None: self.cap.release()
ProcStopRelease ==
    /\ a_pc = "stop_release"
    /\ cap' = IF cap = "none" THEN cap ELSE "released"
    /\ a_pc' = "idle"
    /\ UNCHANGED <<p_running, has_thread, fisheye_params, map_x, map_y, frame,
                   processed_frame, k_pc, k_frame, k_i, k_mx, k_my, k_lx, k_ly,
                   reads, a_exc, a_stops, keys>>
    /\ UNCHANGED <<readerVars, k_ret, stored>>
    /\ UNCHANGED nonProcVars

(***************************************************************************)
(* calibrate_fisheye_params (main.py lines 217-282), one key press          *)
(***************************************************************************)
Fields == {"cx", "cy", "radius"}

\* lines 245-280, first statement of a branch: one field of the live
\* dictionary is changed in place by adjustment_step.  Calibration runs on a
\* started processor (main.py lines 146-157), and keys are handled only once
\* get_processed_frame() has returned a frame (lines 219-222).
KeyPress(lens, field, d) ==
    /\ a_pc = "idle"
    /\ p_running
    /\ processed_frame # None
    /\ keys < MaxKeys
    /\ keys' = keys + 1
    /\ fisheye_params' = [fisheye_params EXCEPT ![lens][field] = @ + d]
    /\ a_pc' = "key_map_x"
    /\ UNCHANGED <<p_running, has_thread, cap, map_x, map_y, frame,
                   processed_frame, k_pc, k_frame, k_i, k_mx, k_my, k_lx, k_ly,
                   reads, a_exc, a_stops>>
    /\ UNCHANGED <<readerVars, k_ret, stored>>
    /\ UNCHANGED nonProcVars

\* second statement: processor.map_x, processor.map_y = None, None
\* stores map_x first ...
KeyClearMapX ==
    /\ a_pc = "key_map_x"
    /\ map_x' = NoTable
    /\ a_pc' = "key_map_y"
    /\ UNCHANGED <<p_running, has_thread, cap, fisheye_params, map_y, frame,
                   processed_frame, k_pc, k_frame, k_i, k_mx, k_my, k_lx, k_ly,
                   reads, a_exc, a_stops, keys>>
    /\ UNCHANGED <<readerVars, k_ret, stored>>
    /\ UNCHANGED nonProcVars

\* ... and then map_y
KeyClearMapY ==
    /\ a_pc = "key_map_y"
    /\ map_y' = NoTable
    /\ a_pc' = "idle"
    /\ UNCHANGED <<p_running, has_thread, cap, fisheye_params, map_x, frame,
                   processed_frame, k_pc, k_frame, k_i, k_mx, k_my, k_lx, k_ly,
                   reads, a_exc, a_stops, keys>>
    /\ UNCHANGED <<readerVars, k_ret, stored>>
    /\ UNCHANGED nonProcVars

(***************************************************************************)
(* Insta360Processor._capture_loop and process_frame, the capture thread   *)
(***************************************************************************)
\* line 101: while self.running
CapLoop ==
    /\ k_pc = "loop"
    /\ k_pc' = IF p_running THEN "read" ELSE "done"
    /\ UNCHANGED <<p_running, has_thread, cap, fisheye_params, map_x, map_y, frame,
                   processed_frame, k_frame, k_i, k_mx, k_my, k_lx, k_ly, reads,
                   a_pc, a_exc, a_stops, keys>>
    /\ UNCHANGED <<readerVars, k_ret, stored>>
    /\ UNCHANGED nonProcVars

\* a failed read that leaves the loop instead
CapReadFailsEndsLoop ==
    /\ k_pc = "read"
    /\ k_ret' = "False"
    /\ k_pc' = "done"
    /\ UNCHANGED <<p_running, has_thread, cap, fisheye_params, map_x, map_y, frame,
                   processed_frame, k_frame, k_i, k_mx, k_my, k_lx, k_ly, reads,
                   a_pc, a_exc, a_stops, keys>>
    /\ UNCHANGED <<readerVars, stored>>
    /\ UNCHANGED nonProcVars

\* lines 102-106: a failed read: sleep(0.1); continue
CapReadFails ==
    /\ k_pc = "read"
    /\ k_ret' = "False"
    /\ k_pc' = "loop"
    /\ UNCHANGED <<p_running, has_thread, cap, fisheye_params, map_x, map_y, frame,
                   processed_frame, k_frame, k_i, k_mx, k_my, k_lx, k_ly, reads,
                   a_pc, a_exc, a_stops, keys>>
    /\ UNCHANGED <<readerVars, stored>>
    /\ UNCHANGED nonProcVars

\* line 102: the device delivers the next frame; process_frame is entered
CapRead ==
    /\ k_pc = "read"
    /\ reads < MaxReads
    /\ reads' = reads + 1
    /\ k_ret' = "True"
    /\ k_frame' = reads + 1
    /\ k_pc' = "check_x"
    /\ UNCHANGED <<p_running, has_thread, cap, fisheye_params, map_x, map_y, frame,
                   processed_frame, k_i, k_mx, k_my, k_lx, k_ly, a_pc, a_exc,
                   a_stops, keys>>
    /\ UNCHANGED <<readerVars, stored>>
    /\ UNCHANGED nonProcVars

\* line 240, left operand: self.map_x is None
CheckMapX ==
    /\ k_pc = "check_x"
    /\ IF map_x = NoTable
         THEN /\ k_pc' = "build"
              /\ k_i' = 0
              /\ k_mx' = NoTable
              /\ k_my' = NoTable
         ELSE /\ k_pc' = "check_y"
              /\ UNCHANGED <<k_i, k_mx, k_my>>
    /\ UNCHANGED <<p_running, has_thread, cap, fisheye_params, map_x, map_y, frame,
                   processed_frame, k_frame, k_lx, k_ly, reads, a_pc, a_exc,
                   a_stops, keys>>
    /\ UNCHANGED <<readerVars, k_ret, stored>>
    /\ UNCHANGED nonProcVars

\* line 240, right operand: self.map_y is None
CheckMapY ==
    /\ k_pc = "check_y"
    /\ IF map_y = NoTable
         THEN /\ k_pc' = "build"
              /\ k_i' = 0
              /\ k_mx' = NoTable
              /\ k_my' = NoTable
         ELSE /\ k_pc' = "load_x"
              /\ UNCHANGED <<k_i, k_mx, k_my>>
    /\ UNCHANGED <<p_running, has_thread, cap, fisheye_params, map_x, map_y, frame,
                   processed_frame, k_frame, k_lx, k_ly, reads, a_pc, a_exc,
                   a_stops, keys>>
    /\ UNCHANGED <<readerVars, k_ret, stored>>
    /\ UNCHANGED nonProcVars

\* _init_mapping_table, lines 128-164: one column; the calibration is read
\* from the live self.fisheye_params as each column is computed
BuildColumn ==
    /\ k_pc = "build"
    /\ k_mx' = Append(k_mx, CellX(fisheye_params, k_i))
    /\ k_my' = Append(k_my, CellY(fisheye_params, k_i))
    /\ k_i' = k_i + 1
    /\ k_pc' = IF k_i + 1 < OutWidth THEN "build" ELSE "assign_x"
    /\ UNCHANGED <<p_running, has_thread, cap, fisheye_params, map_x, map_y, frame,
                   processed_frame, k_frame, k_lx, k_ly, reads, a_pc, a_exc,
                   a_stops, keys>>
    /\ UNCHANGED <<readerVars, k_ret, stored>>
    /\ UNCHANGED nonProcVars

\* line 242: self.map_x, self.map_y = ... stores map_x first ...
AssignMapX ==
    /\ k_pc = "assign_x"
    /\ map_x' = k_mx
    /\ k_pc' = "assign_y"
    /\ UNCHANGED <<p_running, has_thread, cap, fisheye_params, map_y, frame,
                   processed_frame, k_frame, k_i, k_mx, k_my, k_lx, k_ly, reads,
                   a_pc, a_exc, a_stops, keys>>
    /\ UNCHANGED <<readerVars, k_ret, stored>>
    /\ UNCHANGED nonProcVars

\* ... and then map_y
AssignMapY ==
    /\ k_pc = "assign_y"
    /\ map_y' = k_my
    /\ k_pc' = "load_x"
    /\ UNCHANGED <<p_running, has_thread, cap, fisheye_params, map_x, frame,
                   processed_frame, k_frame, k_i, k_mx, k_my, k_lx, k_ly, reads,
                   a_pc, a_exc, a_stops, keys>>
    /\ UNCHANGED <<readerVars, k_ret, stored>>
    /\ UNCHANGED nonProcVars

\* line 245: the arguments self.map_x and self.map_y of cv2.remap are read
\* from the attributes again, map_x first
LoadMapX ==
    /\ k_pc = "load_x"
    /\ k_lx' = map_x
    /\ k_pc' = "load_y"
    /\ UNCHANGED <<p_running, has_thread, cap, fisheye_params, map_x, map_y, frame,
                   processed_frame, k_frame, k_i, k_mx, k_my, k_ly, reads,
                   a_pc, a_exc, a_stops, keys>>
    /\ UNCHANGED <<readerVars, k_ret, stored>>
    /\ UNCHANGED nonProcVars

LoadMapY ==
    /\ k_pc = "load_y"
    /\ k_ly' = map_y
    /\ k_pc' = "remap"
    /\ UNCHANGED <<p_running, has_thread, cap, fisheye_params, map_x, map_y, frame,
                   processed_frame, k_frame, k_i, k_mx, k_my, k_lx, reads,
                   a_pc, a_exc, a_stops, keys>>
    /\ UNCHANGED <<readerVars, k_ret, stored>>
    /\ UNCHANGED nonProcVars

\* lines 245-247: cv2.remap with the two arguments.  With a None map
\* cv2.remap raises; nothing in process_frame or _capture_loop catches it,
\* and the thread ends.  The stages that follow (lines 250-258: _blend_seam,
\* equalize_brightness, color_balance) are taken to return the panorama
\* here; _blend_seam is modelled by itself below (SpecBlend), where it is
\* seen to raise, and inside the capture thread in SpecCapture.
Remap ==
    /\ k_pc = "remap"
    /\ k_pc' = IF k_lx = NoTable \/ k_ly = NoTable THEN "crashed" ELSE "store"
    /\ UNCHANGED <<p_running, has_thread, cap, fisheye_params, map_x, map_y, frame,
                   processed_frame, k_frame, k_i, k_mx, k_my, k_lx, k_ly, reads,
                   a_pc, a_exc, a_stops, keys>>
    /\ UNCHANGED <<readerVars, k_ret, stored>>
    /\ UNCHANGED nonProcVars

\* the panorama process_frame returns for device frame f (lines 245-260):
\* device frames are numbered from 1, their panoramas are the negatives
Panorama(f) == 0 - f

\* lines 112-114: with self.lock: self.frame = frame; self.processed_frame = processed
Store ==
    /\ k_pc = "store"
    /\ frame' = k_frame
    /\ processed_frame' = Panorama(k_frame)
    /\ stored' = stored + 1
    /\ k_pc' = "loop"
    /\ UNCHANGED <<p_running, has_thread, cap, fisheye_params, map_x, map_y,
                   k_frame, k_i, k_mx, k_my, k_lx, k_ly, reads, a_pc, a_exc,
                   a_stops, keys>>
    /\ UNCHANGED <<readerVars, k_ret>>
    /\ UNCHANGED nonProcVars

(***************************************************************************)
(* Insta360Processor.get_processed_frame / get_original_frame              *)
(***************************************************************************)
\* lines 269-274: None, or a copy of the raw frame in the slot
OriginalFrame == frame

\* lines 264-267: None, or a copy of the processed frame in the slot.  A copy
\* is a new array of equal content, and the capture thread never writes into
\* an array it has stored (it binds the slot to a new one), so a frame is
\* its content here.
ProcessedFrame == processed_frame

\* lines 262-267, under self.lock, as Store is
GetProcessedFrame ==
    /\ a_pc = "idle"
    /\ gets < MaxGets
    /\ gets' = gets + 1
    /\ g_result' = ProcessedFrame
    /\ UNCHANGED <<p_running, has_thread, cap, fisheye_params, map_x, map_y, frame,
                   processed_frame, k_pc, k_frame, k_i, k_mx, k_my, k_lx, k_ly,
                   reads, a_pc, a_exc, a_stops, keys, k_ret, stored>>
    /\ UNCHANGED nonProcVars

NextProc ==
    \/ ProcStartOpens
    \/ ProcStartFails
    \/ ProcStopCall
    \/ ProcStopThread
    \/ ProcStopJoin
    \/ ProcStopRelease
    \/ \E lens \in Lenses, field \in Fields, d \in {-1, 1} : KeyPress(lens, field, d)
    \/ KeyClearMapX
    \/ KeyClearMapY
    \/ CapLoop
    \/ CapReadFails
    \/ CapRead
    \/ CheckMapX
    \/ CheckMapY
    \/ BuildColumn
    \/ AssignMapX
    \/ AssignMapY
    \/ LoadMapX
    \/ LoadMapY
    \/ Remap
    \/ Store

(***************************************************************************)
(* Insta360Processor._blend_seam (SpecBlend)                               *)
(***************************************************************************)
\* a slice bound i of a Python sequence of length n
Clip(i, n) == IF i < 0 THEN Max(0, n + i) ELSE Min(i, n)

\* s[a:b]
Slice(s, a, b) == SubSeq(s, Clip(a, Len(s)) + 1, Clip(b, Len(s)))

\* the length two operands of lengths m and n broadcast to, -1 if they do not
BroadcastLen(m, n) ==
    IF m = n THEN m ELSE IF m = 1 THEN n ELSE IF n = 1 THEN m ELSE 0 - 1

\* element j of an operand broadcast to a longer one
At(s, j) == IF Len(s) = 1 THEN s[1] ELSE s[j]

\* lines 191-193 and 213-215: weight[:, i] = i / (overlap * 2), as the
\* numerators i over the common denominator overlap * 2
Weight(overlap) == [k \in 1..(2 * overlap) |-> k - 1]

\* lines 201 and 222: the length of region1 * (1 - weight[:, :overlap]) +
\* region2 * weight[:, overlap:], -1 when the operands do not broadcast
\* (ValueError)
BlendLen(region1, region2, overlap) ==
    LET n1 == BroadcastLen(Len(region1), overlap)
        n2 == BroadcastLen(Len(region2), overlap)
    IN  IF n1 < 0 \/ n2 < 0 THEN 0 - 1 ELSE BroadcastLen(n1, n2)

\* ... and its value, rounded down to a whole pixel value
Blend(region1, region2, overlap) ==
    LET w1 == Slice(Weight(overlap), 0, overlap)
        w2 == Slice(Weight(overlap), overlap, 2 * overlap)
    IN  [j \in 1..Max(0, BlendLen(region1, region2, overlap)) |->
            (At(region1, j) * (2 * overlap - At(w1, j))
               + At(region2, j) * At(w2, j)) \div (2 * overlap)]

\* target[a:b] = src fits when src has the length of the slice or length 1
Fits(target, a, b, src) ==
    Len(src) = Len(Slice(target, a, b)) \/ Len(src) = 1

\* target after target[a:b] = src
Assign(target, a, b, src) ==
    [i \in 1..Len(target) |->
        IF Clip(a, Len(target)) < i /\ i <= Clip(b, Len(target))
          THEN At(src, i - Clip(a, Len(target)))
          ELSE target[i]]

BlendInit ==
    /\ b_pc = "idle"
    /\ b_pan = <<>>
    /\ b_ow = 0
    /\ b_left = <<>>
    /\ b_right = <<>>
    /\ b_out = <<>>

\* _blend_seam is called with a panorama of one colour
BlendCall ==
    /\ b_pc = "idle"
    /\ \E w \in 2..BlendWidth, c \in 1..MaxColour, ow \in 0..BlendWidth :
          /\ ow <= w
          /\ b_pan' = [i \in 1..w |-> c]
          /\ b_ow' = ow
    /\ b_pc' = "left"
    /\ UNCHANGED <<b_left, b_right, b_out>>
    /\ UNCHANGED nonBlendVars

\* lines 185-201
BlendLeft ==
    /\ b_pc = "left"
    /\ LET left_overlap == b_ow \div 2
           left_region1 == Slice(b_pan, 0 - left_overlap, Len(b_pan))
           left_region2 == Slice(b_pan, 0, left_overlap)
       IN  /\ b_left' = Blend(left_region1, left_region2, left_overlap)
           /\ b_pc' = IF BlendLen(left_region1, left_region2, left_overlap) < 0
                        THEN "raised" ELSE "right"
    /\ UNCHANGED <<b_pan, b_ow, b_right, b_out>>
    /\ UNCHANGED nonBlendVars

\* lines 204-222
BlendRight ==
    /\ b_pc = "right"
    /\ LET right_overlap == b_ow \div 2
           right_seam_center == Len(b_pan) \div 2
           right_seam_start == right_seam_center - right_overlap
           right_seam_end == right_seam_center + right_overlap
           right_region1 == Slice(b_pan, right_seam_start, right_seam_center)
           right_region2 == Slice(b_pan, right_seam_center, right_seam_end)
       IN  /\ b_right' = Blend(right_region1, right_region2, right_overlap)
           /\ b_pc' = IF BlendLen(right_region1, right_region2, right_overlap) < 0
                        THEN "raised" ELSE "apply"
    /\ UNCHANGED <<b_pan, b_ow, b_left, b_out>>
    /\ UNCHANGED nonBlendVars

\* lines 225-230: the three slice assignments into the copy, and the return
BlendApply ==
    /\ b_pc = "apply"
    /\ LET n == Len(b_pan)
           overlap == b_ow \div 2
           center == n \div 2
           src1 == Slice(b_left, 0, overlap)
           src2 == Slice(b_left, overlap, Len(b_left))
           src3 == Slice(b_right, 0, overlap) \o Slice(b_right, overlap, Len(b_right))
           r1 == Assign(b_pan, 0 - overlap, n, src1)
           r2 == Assign(r1, 0, overlap, src2)
           r3 == Assign(r2, center - overlap, center + overlap, src3)
       IN  IF /\ Fits(b_pan, 0 - overlap, n, src1)
              /\ Fits(b_pan, 0, overlap, src2)
              /\ Fits(b_pan, center - overlap, center + overlap, src3)
             THEN b_out' = r3 /\ b_pc' = "returned"
             ELSE b_out' = b_out /\ b_pc' = "raised"
    /\ UNCHANGED <<b_pan, b_ow, b_left, b_right>>
    /\ UNCHANGED nonBlendVars

\* the call is over; the next one may begin
BlendDone ==
    /\ b_pc \in {"returned", "raised"}
    /\ b_pc' = "idle"
    /\ b_pan' = <<>>
    /\ b_ow' = 0
    /\ b_left' = <<>>
    /\ b_right' = <<>>
    /\ b_out' = <<>>
    /\ UNCHANGED nonBlendVars

NextBlend == BlendCall \/ BlendLeft \/ BlendRight \/ BlendApply \/ BlendDone

(***************************************************************************)
(* One entry of the projection table and its use by cv2.remap (SpecTable)  *)
(***************************************************************************)
\* line 162: 0 <= x_fisheye < width and 0 <= y_fisheye < height
InSource(x, y) == 0 <= x /\ x < SrcWidth /\ 0 <= y /\ y < SrcHeight

\* lines 124-125, 147-148 and 162-164: the entry starts as 0.0 in both
\* tables and is overwritten only when r # 0 and the coordinate is inside
\* the source frame
MapEntry(r0, x, y) == IF ~r0 /\ InSource(x, y) THEN <<x, y>> ELSE <<0, 0>>

\* lines 245-247: cv2.remap with borderMode=cv2.BORDER_CONSTANT shows the
\* source pixel the entry names, or the constant border where the entry is
\* outside the source frame
RemapPixel(entry) ==
    IF InSource(entry[1], entry[2]) THEN "source pixel" ELSE "background"

TableInit ==
    /\ e_pc = "idle"
    /\ e_r0 = FALSE
    /\ e_x = 0
    /\ e_y = 0
    /\ e_map = <<0, 0>>
    /\ e_pixel = "none"

\* lines 146-164 for one output pixel: r and the source coordinate come out
\* of the projection; the entry is stored
TableStore ==
    /\ e_pc = "idle"
    /\ \E r0 \in BOOLEAN, x \in (0 - 1)..SrcWidth, y \in (0 - 1)..SrcHeight :
          /\ e_r0' = r0
          /\ e_x' = x
          /\ e_y' = y
          /\ e_map' = MapEntry(r0, x, y)
    /\ e_pc' = "stored"
    /\ UNCHANGED e_pixel
    /\ UNCHANGED nonTableVars

\* lines 245-247 for that output pixel
TableRemap ==
    /\ e_pc = "stored"
    /\ e_pixel' = RemapPixel(e_map)
    /\ e_pc' = "remapped"
    /\ UNCHANGED <<e_r0, e_x, e_y, e_map>>
    /\ UNCHANGED nonTableVars

\* the next output pixel
TableNext ==
    /\ e_pc = "remapped"
    /\ e_pc' = "idle"
    /\ e_r0' = FALSE
    /\ e_x' = 0
    /\ e_y' = 0
    /\ e_map' = <<0, 0>>
    /\ e_pixel' = "none"
    /\ UNCHANGED nonTableVars

NextTable == TableStore \/ TableRemap \/ TableNext

(***************************************************************************)
(* Lens selection against the seam positions (SpecSeam)                    *)
(***************************************************************************)
\* lines 131, 140-143 for an output width w: theta = 2*pi*x/w - pi, and the
\* right lens iff -pi/2 <= theta <= pi/2, that is w/4 <= x <= 3*w/4
LensOf(w, x) == IF w <= 4 * x /\ 4 * x <= 3 * w THEN "right" ELSE "left"

\* lines 178-185 and 204-206: the wrap seam is centred on the left edge and
\* takes the last and the first overlap_width // 2 columns; the other seam
\* is centred on half_width and takes right_seam_start..right_seam_end - 1
SeamPositions(w, ow) ==
    [left_seam_center  |-> 0,
     right_seam_center |-> w \div 2,
     left_overlap      |-> ow \div 2,
     right_seam_start  |-> (w \div 2) - (ow \div 2),
     right_seam_end    |-> (w \div 2) + (ow \div 2)]

NoSeam == [left_seam_center |-> 0, right_seam_center |-> 0, left_overlap |-> 0,
           right_seam_start |-> 0, right_seam_end |-> 0]

SeamInit ==
    /\ s_pc = "idle"
    /\ s_w = 0
    /\ s_ow = 0
    /\ s_x = 0
    /\ s_lens = <<>>
    /\ s_seam = NoSeam

\* a processor of output width w whose overlap width is ow (lines 25, 59,
\* 287-288); process_frame enters _init_mapping_table for its first frame
SeamCall ==
    /\ s_pc = "idle"
    /\ \E w \in 4..MaxSeamWidth, ow \in 0..MaxSeamWidth :
          /\ ow <= w
          /\ s_w' = w
          /\ s_ow' = ow
    /\ s_pc' = "build"
    /\ s_x' = 0
    /\ s_lens' = <<>>
    /\ UNCHANGED s_seam
    /\ UNCHANGED nonSeamVars

\* lines 129-143: the lens of the next column
SeamColumn ==
    /\ s_pc = "build"
    /\ s_x < s_w
    /\ s_lens' = Append(s_lens, LensOf(s_w, s_x))
    /\ s_x' = s_x + 1
    /\ UNCHANGED <<s_pc, s_w, s_ow, s_seam>>
    /\ UNCHANGED nonSeamVars

\* the table is complete; _blend_seam fixes its seams (lines 178-209)
SeamBlend ==
    /\ s_pc = "build"
    /\ s_x = s_w
    /\ s_seam' = SeamPositions(s_w, s_ow)
    /\ s_pc' = "blended"
    /\ UNCHANGED <<s_w, s_ow, s_x, s_lens>>
    /\ UNCHANGED nonSeamVars

\* another processor
SeamDone ==
    /\ s_pc = "blended"
    /\ s_pc' = "idle"
    /\ s_w' = 0
    /\ s_ow' = 0
    /\ s_x' = 0
    /\ s_lens' = <<>>
    /\ s_seam' = NoSeam
    /\ UNCHANGED nonSeamVars

NextSeam == SeamCall \/ SeamColumn \/ SeamBlend \/ SeamDone

Init == SinkInit /\ PaceInit /\ ProcInit /\ BlendInit /\ TableInit /\ SeamInit

SpecSeam == Init /\ [][NextSeam]_vars

SpecTable == Init /\ [][NextTable]_vars

SpecBlend == Init /\ [][NextBlend]_vars

Next ==
    \/ Start(MaxThreads)
    \/ Caller
    \/ \E i \in Threads : Consumer(i)
    \/ \E i \in Threads : EncoderExit(i)

Spec == Init /\ [][Next]_vars

NextQueue ==
    \/ Start(QueueThreads)
    \/ Caller
    \/ \E i \in Threads : Consumer(i)
    \/ \E i \in Threads : EncoderExit(i)

SpecQueue == Init /\ [][NextQueue]_vars

\* the sink with its first frames told apart, for the order of the writes
NextOrder ==
    \/ Start(MaxThreads)
    \/ PushCallEarly
    \/ PushReject
    \/ PushFull
    \/ PushPut
    \/ StopCall
    \/ StopJoin
    \/ StopProc
    \/ StopTerminate
    \/ StopWait
    \/ StopWaiting
    \/ StopKill
    \/ StopClear
    \/ StopDrain
    \/ \E i \in Threads : TaggedConsumer(i)
    \/ \E i \in Threads : EncoderExit(i)

SpecOrder == Init /\ [][NextOrder]_vars

SpecPacing == Init /\ [][NextPacing]_vars

SpecProc == Init /\ [][NextProc]_vars

\* the processor with a reader of the slot and no calibration
NextSlot ==
    \/ ProcStartOpens
    \/ ProcStartFails
    \/ ProcStopCall
    \/ ProcStopThread
    \/ ProcStopJoin
    \/ ProcStopRelease
    \/ GetProcessedFrame
    \/ CapLoop
    \/ CapReadFails
    \/ CapRead
    \/ CheckMapX
    \/ CheckMapY
    \/ BuildColumn
    \/ AssignMapX
    \/ AssignMapY
    \/ LoadMapX
    \/ LoadMapY
    \/ Remap
    \/ Store

SpecSlot == Init /\ [][NextSlot]_vars

\* the steps of stop() after line 93, each taken as soon as it can be
ProcStopSteps == ProcStopThread \/ ProcStopJoin \/ ProcStopRelease

\* the steps of the capture thread that do not wait for the device
\* (line 102)
CaptureProgress ==
    \/ CapLoop
    \/ CheckMapX
    \/ CheckMapY
    \/ BuildColumn
    \/ AssignMapX
    \/ AssignMapY
    \/ LoadMapX
    \/ LoadMapY
    \/ Remap
    \/ Store

\* the processor and its reader with a scheduler that lets stop() and the
\* capture thread run; self.cap.read() may block for ever (it has no
\* timeout), so no read step is ever forced
SpecSlotFair == SpecSlot /\ WF_vars(ProcStopSteps) /\ WF_vars(CaptureProgress)

(***************************************************************************)
(* The capture thread with _blend_seam inside process_frame (SpecCapture)  *)
(***************************************************************************)
\* lines 245-250: cv2.remap (it raises on a None table), then _blend_seam is
\* entered with the panorama, output_width wide, and with the overlap width
\* the processor has at that moment (line 59, or lines 287-288)
RemapAndBlend ==
    /\ k_pc = "remap"
    /\ b_pc = "idle"
    /\ IF k_lx = NoTable \/ k_ly = NoTable
         THEN /\ k_pc' = "crashed"
              /\ UNCHANGED blendVars
         ELSE /\ k_pc' = "blend"
              /\ \E c \in 1..MaxColour, ow \in 0..OutWidth :
                    /\ b_pan' = [i \in 1..OutWidth |-> c]
                    /\ b_ow' = ow
              /\ b_pc' = "left"
              /\ UNCHANGED <<b_left, b_right, b_out>>
    /\ UNCHANGED <<p_running, has_thread, cap, fisheye_params, map_x, map_y, frame,
                   processed_frame, k_frame, k_i, k_mx, k_my, k_lx, k_ly, reads,
                   a_pc, a_exc, a_stops, keys>>
    /\ UNCHANGED <<readerVars, k_ret, stored>>
    /\ UNCHANGED <<sinkVars, paceVars, tableVars, seamVars>>

\* _blend_seam is left.  When it returned, lines 253-260 and 112-114 follow:
\* the frame and its panorama are stored under the lock.  When it raised,
\* the ValueError leaves process_frame (line 250) and _capture_loop (line
\* 109), neither of which has a handler, and the thread ends.
BlendExit ==
    /\ k_pc = "blend"
    /\ b_pc \in {"returned", "raised"}
    /\ IF b_pc = "returned"
         THEN /\ frame' = k_frame
              /\ processed_frame' = Panorama(k_frame)
              /\ stored' = stored + 1
              /\ k_pc' = "loop"
         ELSE /\ k_pc' = "crashed"
              /\ UNCHANGED <<frame, processed_frame, stored>>
    /\ b_pc' = "idle"
    /\ b_pan' = <<>>
    /\ b_ow' = 0
    /\ b_left' = <<>>
    /\ b_right' = <<>>
    /\ b_out' = <<>>
    /\ UNCHANGED <<p_running, has_thread, cap, fisheye_params, map_x, map_y,
                   k_frame, k_i, k_mx, k_my, k_lx, k_ly, reads, a_pc, a_exc,
                   a_stops, keys>>
    /\ UNCHANGED <<readerVars, k_ret>>
    /\ UNCHANGED <<sinkVars, paceVars, tableVars, seamVars>>

NextCapture ==
    \/ ProcStartOpens
    \/ ProcStartFails
    \/ ProcStopCall
    \/ ProcStopThread
    \/ ProcStopJoin
    \/ ProcStopRelease
    \/ GetProcessedFrame
    \/ CapLoop
    \/ CapReadFails
    \/ CapRead
    \/ CheckMapX
    \/ CheckMapY
    \/ BuildColumn
    \/ AssignMapX
    \/ AssignMapY
    \/ LoadMapX
    \/ LoadMapY
    \/ RemapAndBlend
    \/ BlendLeft
    \/ BlendRight
    \/ BlendApply
    \/ BlendExit

SpecCapture == Init /\ [][NextCapture]_vars

(***************************************************************************)
(* Calibration against a capture thread that never runs out of frames      *)
(* (SpecCalib)                                                             *)
(***************************************************************************)
\* line 102: the device delivers the next frame, however many it has
\* delivered; the frame numbers are used again after MaxReads
CapReadNext ==
    /\ k_pc = "read"
    /\ reads' = (reads % MaxReads) + 1
    /\ k_ret' = "True"
    /\ k_frame' = (reads % MaxReads) + 1
    /\ k_pc' = "check_x"
    /\ UNCHANGED <<p_running, has_thread, cap, fisheye_params, map_x, map_y, frame,
                   processed_frame, k_i, k_mx, k_my, k_lx, k_ly, a_pc, a_exc,
                   a_stops, keys>>
    /\ UNCHANGED <<readerVars, stored>>
    /\ UNCHANGED nonProcVars

\* lines 112-114, with the number of stores counted up to MaxReads only
StoreNext ==
    /\ k_pc = "store"
    /\ frame' = k_frame
    /\ processed_frame' = Panorama(k_frame)
    /\ stored' = Min(stored + 1, MaxReads)
    /\ k_pc' = "loop"
    /\ UNCHANGED <<p_running, has_thread, cap, fisheye_params, map_x, map_y,
                   k_frame, k_i, k_mx, k_my, k_lx, k_ly, reads, a_pc, a_exc,
                   a_stops, keys>>
    /\ UNCHANGED <<readerVars, k_ret>>
    /\ UNCHANGED nonProcVars

\* calibrate_fisheye_params: the two stores that follow a parameter change
KeyClearSteps == KeyClearMapX \/ KeyClearMapY

\* the capture thread, the device read included
CaptureSteps ==
    \/ CapLoop
    \/ CapReadNext
    \/ CheckMapX
    \/ CheckMapY
    \/ BuildColumn
    \/ AssignMapX
    \/ AssignMapY
    \/ LoadMapX
    \/ LoadMapY
    \/ Remap
    \/ StoreNext

NextCalib ==
    \/ ProcStartOpens
    \/ \E lens \in Lenses, field \in Fields, d \in {-1, 1} : KeyPress(lens, field, d)
    \/ KeyClearMapX
    \/ KeyClearMapY
    \/ CapLoop
    \/ CapReadNext
    \/ CheckMapX
    \/ CheckMapY
    \/ BuildColumn
    \/ AssignMapX
    \/ AssignMapY
    \/ LoadMapX
    \/ LoadMapY
    \/ Remap
    \/ StoreNext

\* main starts the processor (main.py line 146) and handles a key to the
\* end; the capture thread runs and the device keeps delivering frames.
\* When the user presses a key is left open (at most MaxKeys times).
SpecCalib ==
    /\ Init
    /\ [][NextCalib]_vars
    /\ WF_vars(ProcStartOpens)
    /\ WF_vars(KeyClearSteps)
    /\ WF_vars(CaptureSteps)

(***************************************************************************)
(* main (main.py lines 145-194): processor.start(), streamer.start(), the  *)
(* push loop, and the finally block processor.stop(); streamer.stop()      *)
(* (SpecMain).  The position of main is read off the state of the two      *)
(* objects.                                                                *)
(***************************************************************************)
\* the finally block (line 186) has not been entered
InTry == a_stops = 0 /\ stops = 0

\* line 146: processor.start()
MainProcStart ==
    /\ InTry
    /\ cap = "none"
    /\ (ProcStartOpens \/ ProcStartFails)

\* line 151: streamer.start(), reached when processor.start() returned
MainStreamStart ==
    /\ InTry
    /\ p_running
    /\ NumSpawned = 0
    /\ Start(QueueThreads)

\* lines 162-168: a frame from get_processed_frame() is pushed; the sink is
\* running throughout the try block, so push_frame never takes line 76
MainPush ==
    /\ InTry
    /\ running
    /\ processed_frame # None
    /\ PushCall

\* lines 182-188: the try block is left (ValueError of processor.start(),
\* KeyboardInterrupt, any exception) and the finally block calls
\* processor.stop()
MainFinallyProc ==
    /\ InTry
    /\ cap # "none"
    /\ m_pc = "idle"
    /\ ProcStopCall

\* line 189: streamer.stop(), reached when processor.stop() returned
MainFinallyStream ==
    /\ a_pc = "idle"
    /\ a_stops > 0
    /\ a_exc = "none"
    /\ stops = 0
    /\ StopCall

NextMain ==
    \/ MainProcStart
    \/ MainStreamStart
    \/ MainPush
    \/ MainFinallyProc
    \/ MainFinallyStream
    \/ ProcStopSteps
    \/ CaptureProgress
    \/ CapReadFails
    \/ CapRead
    \/ PushFull
    \/ PushEvict
    \/ PushPut
    \/ StopJoin
    \/ StopProc
    \/ StopTerminate
    \/ StopWait
    \/ StopWaiting
    \/ StopKill
    \/ StopClear
    \/ StopDrain
    \/ \E i \in Threads : Consumer(i)
    \/ \E i \in Threads : EncoderExit(i)

SpecMain == Init /\ [][NextMain]_vars

ThreadAlive(i) == c_pc[i] \notin {"unborn", "done", "crashed"}

TypeOK ==
    /\ running \in BOOLEAN
    /\ process \in {None} \cup Threads

PushQueuePcs == {"push_full", "push_evict", "push_put"}
PushPcs == PushQueuePcs \cup {"push_reject"}

(***************************************************************************)
(* Properties of the frame queue (SpecQueue)                               *)
(***************************************************************************)

\* C1: in every reachable state the frame queue holds at most its fixed
\* capacity of 10 frames.
C1_QueueBounded == Len(frame_queue) <= QueueCapacity

\* a push onto a full queue has completed and the queue is full again
C1_Witness ==
    /\ Len(frame_queue) = QueueCapacity
    /\ nextTag > QueueCapacity
    /\ m_pc = "idle"
    /\ m_result = "True"

\* C2: when neither the consumer nor stop() has removed a frame, after N >
\* capacity frames tagged 1..N were pushed the queue holds exactly the tags
\* N-capacity+1..N, oldest first.
C2_QueueLaw ==
    (~removed /\ m_pc \notin PushQueuePcs /\ nextTag > QueueCapacity)
        => frame_queue = [k \in 1..QueueCapacity |-> nextTag - QueueCapacity + k]

\* MaxFrames > capacity frames were pushed with nothing removed
C2_Witness ==
    /\ ~removed
    /\ running
    /\ m_pc = "idle"
    /\ m_result = "True"
    /\ nextTag > QueueCapacity
    /\ Len(frame_queue) = QueueCapacity
    /\ frame_queue[QueueCapacity] = nextTag

\* C3: a push_frame call that passed the running check returns True, and none
\* of its queue steps (full check, eviction, insert) ever has to wait.
C3_PushSucceeds ==
    /\ [][(m_pc = "push_put" /\ m_pc' # m_pc) => (m_pc' = "idle" /\ m_result' = "True")]_vars
    /\ [](m_pc \in PushQueuePcs => ENABLED (PushFull \/ PushEvict \/ PushPut))

\* a push saw the queue full, the consumer emptied it before the eviction,
\* and the call still returned True
C3_Witness ==
    /\ m_pc = "idle"
    /\ m_result = "True"
    /\ running
    /\ nextTag > QueueCapacity
    /\ Len(frame_queue) = 1

\* C4: push_frame on a sink whose running flag is clear returns False and
\* leaves the queue unchanged.
C4_StoppedPushIsNoop ==
    [][ /\ (m_pc = "idle" /\ ~running /\ m_pc' \in PushPcs)
            => (m_pc' = "push_reject" /\ frame_queue' = frame_queue)
        /\ (m_pc = "push_reject" /\ m_pc' # m_pc)
            => (m_pc' = "idle" /\ m_result' = "False" /\ frame_queue' = frame_queue)
      ]_vars

\* push_frame has returned False on a stopped sink that still holds frames
C4_Witness ==
    /\ m_pc = "idle"
    /\ m_result = "False"
    /\ ~running
    /\ Len(frame_queue) > 0

(***************************************************************************)
(* Properties of the sink's life cycle (Spec)                              *)
(***************************************************************************)
\* the last start()/stop() call was a stop() and it has returned or raised
StopFinished == m_pc = "idle" /\ stops > 0
StopReturned == StopFinished /\ m_exc = "none"
NeverStarted == NumSpawned = 0

\* C5: stop() before any start(), or the second of two successive stop()
\* calls after a start(), does not raise, and once it is over no consumer
\* thread and no encoder process of the sink is alive.
C5_StopIdempotent ==
    (StopFinished /\ (NeverStarted \/ stops = 2))
        => /\ m_exc = "none"
           /\ \A i \in Threads : ~ThreadAlive(i) /\ enc[i] # "alive"

\* C7: when stop() has returned, the running flag is clear and the queue is
\* empty; and once the consumer threads have ended as well, no encoder
\* process the sink spawned is still running.
C7_StopLeavesStopped ==
    StopReturned
        => /\ ~running
           /\ frame_queue = <<>>
           /\ (\A i \in Threads : ~ThreadAlive(i)) => (\A i \in Threads : enc[i] # "alive")

\* the consumer loop of the current thread has ended while the sink is running
StreamFailed == running /\ thread # None /\ c_pc[thread] \in {"done", "crashed"}

\* C8: once the consumer loop has stopped on a failed encoder, the sink no
\* longer reports itself running and push_frame no longer accepts frames.
C8_FailureSignalled ==
    [][(m_pc = "idle" /\ m_pc' \in PushPcs /\ StreamFailed) => m_pc' = "push_reject"]_vars

\* C18: the tags written to an encoder only increase: every frame written
\* was pushed after the frame written before it.
C18_WrittenInOrder ==
    [][\A e \in Threads : written'[e] # written[e] => written'[e] > written[e]]_vars

(***************************************************************************)
(* Properties of pacing (SpecPacing)                                       *)
(***************************************************************************)

\* C9: as long as the consumer was never late by more than a full frame
\* interval, the deadline after k emitted frames is the first deadline plus
\* k frame intervals: the lateness of single frames does not accumulate.
C9_NoDrift ==
    (t_pc # "start" /\ ~late)
        => next_frame_time = first_deadline + emitted * FrameTime

\* the third frame is written after its deadline, but less than an interval
\* late, and no drift has built up
C9_Witness ==
    /\ ~late
    /\ emitted >= 3
    /\ t_pc = "write"
    /\ clock > next_frame_time - FrameTime
    /\ clock < next_frame_time

\* C16: each emitted frame moves the deadline to max(now, deadline +
\* frame interval); the deadline never decreases; and a frame is written no
\* earlier than the deadline that was in force when it was dequeued.
C16_DeadlineRespected ==
    /\ [][(t_pc = "update" /\ t_pc' = "write")
            => next_frame_time' = Max(clock, next_frame_time + FrameTime)]_vars
    /\ [][next_frame_time' >= next_frame_time]_vars
    /\ [](t_pc = "write" => clock >= dequeue_deadline)

\* a frame that had to wait for its deadline is about to be written
C16_Witness ==
    /\ t_pc = "write"
    /\ wait_time > 0
    /\ emitted >= 2
    /\ clock = dequeue_deadline

\* C17: the pacing wait computed at line 138 is at least 0 and at most one
\* frame interval.
C17_WaitBounded == 0 <= wait_time /\ wait_time <= FrameTime

\* with a frame waiting and no time lost, a full frame interval is waited
C17_Witness ==
    /\ t_pc = "sleep"
    /\ emitted >= 2
    /\ wait_time = FrameTime

(***************************************************************************)
(* Properties of the processor (SpecProc)                                  *)
(***************************************************************************)
\* the last processor start()/stop() call was a stop() and it is over
ProcStopFinished == a_pc = "idle" /\ a_stops > 0

\* start() never finds a capture thread of an earlier start() still alive
StartFindsNoThread == (a_pc = "idle" /\ ~p_running) => ~CaptureAlive

\* C6: Insta360Processor.stop() before a successful start(), or the second of
\* two successive stop() calls, does not raise and leaves no capture thread
\* running.
C6_ProcStopIdempotent ==
    (ProcStopFinished /\ (~has_thread \/ a_stops = 2))
        => (a_exc = "none" /\ ~CaptureAlive)

\* the calibration a pair of tables was built from, read off one column per lens
TableParams(mx, my) ==
    [lens \in Lenses |->
        LET c == CHOOSE c \in 1..OutWidth : LensAt(c - 1) = lens
        IN  [cx |-> mx[c][2], cy |-> my[c][2], radius |-> mx[c][3],
             offset_angle |-> mx[c][4]]]

\* the pair is what _init_mapping_table returns for one calibration
FromOneCalibration(mx, my) ==
    /\ mx = TableX(TableParams(mx, my))
    /\ my = TableY(TableParams(mx, my))

KeyHandled == a_pc \notin {"key_map_x", "key_map_y"}

\* the capture thread is between two frames
BetweenFrames == k_pc \in {"loop", "read"}

ProcStopPcs == {"stop_thread", "stop_join", "stop_release"}

\* C12: a call of Insta360Processor.stop() always returns, also when the
\* capture thread stays in a device read for ever.
C12_StopReturns == (a_pc \in ProcStopPcs) ~> (a_pc = "idle")

(***************************************************************************)
(* Properties of main (SpecMain)                                           *)
(***************************************************************************)
\* main has left its finally block: processor.stop() raised out of it, or
\* streamer.stop() is over
MainExited ==
    \/ a_pc = "idle" /\ a_stops > 0 /\ a_exc # "none"
    \/ m_pc = "idle" /\ stops > 0

\* C13: when main has left its finally block, the capture thread has ended,
\* streamer.stop() has been called and has returned without raising, and no
\* consumer thread and no encoder is left running.
C13_OrderedShutdown ==
    MainExited
        => /\ ~CaptureAlive
           /\ stops > 0
           /\ m_exc = "none"
           /\ \A i \in Threads : ~ThreadAlive(i) /\ enc[i] # "alive"

ReadFailed == k_pc = "read" /\ k_pc' = "loop"

\* C19: a failed device read changes neither side of the slot and takes the
\* capture thread back to the loop test, from where it reads again while
\* the running flag is set: only a clear flag or an exception of
\* process_frame ends the loop.
C19_ReadFailureRetried ==
    /\ [][ReadFailed => frame' = frame /\ processed_frame' = processed_frame]_vars
    /\ [][(k_pc = "loop" /\ p_running /\ k_pc' # k_pc) => k_pc' = "read"]_vars
    /\ [][(k_pc' = "done" /\ k_pc # "done") => (k_pc = "loop" /\ ~p_running)]_vars

\* the thread is about to read again after a failed read, the slot still
\* holding the frame stored before
C19_Witness ==
    /\ k_pc = "read"
    /\ k_ret = "False"
    /\ p_running
    /\ stored > 0
    /\ processed_frame = Panorama(frame)

(***************************************************************************)
(* Properties of the seam blend (SpecBlend)                                *)
(***************************************************************************)
\* the two weights applied at column j of a seam window, over overlap * 2
WeightSum(overlap, j) ==
    (2 * overlap - Weight(overlap)[j]) + Weight(overlap)[overlap + j]

\* C15: a call of _blend_seam on a panorama of one colour returns, and
\* returns a panorama of the same width and of that colour at every pixel;
\* at every column of a seam window the two weights sum to 1.
C15_UniformPreserved ==
    b_pc \in {"returned", "raised"}
        => /\ b_pc = "returned"
           /\ b_out = b_pan
           /\ \A j \in 1..(b_ow \div 2) : WeightSum(b_ow \div 2, j) = b_ow

(***************************************************************************)
(* Properties of the projection table (SpecTable)                          *)
(***************************************************************************)
\* the output pixel has no source pixel: r == 0, or the coordinate computed
\* for it lies outside the source frame
Unmapped == e_r0 \/ ~InSource(e_x, e_y)

\* C20: the table entry of an output pixel that has no source pixel names
\* no pixel of the source frame, and cv2.remap renders that output pixel as
\* the constant background.
C20_UnmappedIsBackground ==
    (e_pc = "remapped" /\ Unmapped)
        => /\ ~InSource(e_map[1], e_map[2])
           /\ e_pixel = "background"

(***************************************************************************)
(* Properties of the seam positions (SpecSeam)                             *)
(***************************************************************************)
\* the lens of output column x (0-based) in the finished table
LensOfColumn(x) == s_lens[x + 1]

\* C21: the seam blended around column W/2 is centred where the lens
\* selection switches (columns W/2 - 1 and W/2 come from different lenses),
\* and so is the wrap seam (columns W - 1 and 0 come from different lenses).
C21_SeamsAtLensBoundary ==
    s_pc = "blended"
        => /\ LensOfColumn(s_seam.right_seam_center - 1)
                  # LensOfColumn(s_seam.right_seam_center)
           /\ LensOfColumn(s_w - 1) # LensOfColumn(s_seam.left_seam_center)

(***************************************************************************)
(* Properties of the sink under concurrency                                *)
(***************************************************************************)
\* the eviction step of push_frame (lines 84-87) discards a queued frame
EvictionDiscards == m_pc = "push_evict" /\ frame_queue' # frame_queue

\* C22: push_frame discards a queued frame only when the queue is at
\* capacity at the moment of the eviction, also when the consumer dequeues
\* between the full() check and the get_nowait(); the insert then leaves
\* the queue one longer, up to the capacity.
C22_EvictsOnlyWhenFull ==
    [][ /\ EvictionDiscards => QFull(frame_queue)
        /\ (m_pc = "push_put" /\ m_pc' # m_pc)
              => Len(frame_queue') = Min(Len(frame_queue) + 1, QueueCapacity)
      ]_vars

\* the consumer threads inside _stream_loop, and the encoders still running
LoopThreads == {i \in Threads : ThreadAlive(i)}
LiveEncoders == {i \in Threads : enc[i] = "alive"}

\* C23: whatever start() and stop() calls are made, at most one consumer
\* thread is inside _stream_loop and at most one encoder process is alive,
\* and an encoder that is alive is the one self.process refers to.
C23_OneConsumerOneEncoder ==
    /\ Cardinality(LoopThreads) <= 1
    /\ Cardinality(LiveEncoders) <= 1
    /\ \A i \in LiveEncoders : process = i

\* stop() is at a call on self.process (lines 55, 56, 58)
StopUsesHandle == m_pc \in {"stop_term", "stop_wait", "stop_kill"}

\* thread i is at a call on self.process in its finally block (lines 154,
\* 156, 157, 159)
FinallyUsesHandle(i) == c_pc[i] \in {"fin_poll", "fin_close", "fin_wait", "fin_kill"}

\* C24: whenever stop() or the finally block of the consumer thread calls a
\* method on self.process, self.process is not None.
C24_HandleNotNoneAtUse ==
    [][ /\ (StopUsesHandle /\ m_pc' # m_pc) => process # None
        /\ \A i \in Threads :
              (FinallyUsesHandle(i) /\ c_pc'[i] # c_pc[i]) => process # None
      ]_vars

\* thread i has seen the queue non-empty (line 128) and is at the blocking
\* frame_queue.get() (line 134)
AtBlockingGet(i) == c_pc[i] = "get"

\* C25: whenever the consumer thread is at the blocking frame_queue.get()
\* after seeing the queue non-empty, the queue still holds a frame, so the
\* thread never waits in get() and ends once stop() has been called.
C25_GetNeverBlocks ==
    \A i \in Threads : AtBlockingGet(i) => ~QEmpty(frame_queue)

(***************************************************************************)
(* Properties of the capture thread (SpecCapture)                          *)
(***************************************************************************)
\* C26: while the running flag of the processor is set the capture thread
\* is alive: no exception of process_frame ends it, so the frames the
\* device delivers are processed and stored.
C26_CaptureStaysAlive == p_running => CaptureAlive

(***************************************************************************)
(* Properties of calibration (SpecCalib)                                   *)
(***************************************************************************)
\* the active table is the one _init_mapping_table computes from the
\* calibration as it is now
TableIsCurrent ==
    /\ map_x = TableX(fisheye_params)
    /\ map_y = TableY(fisheye_params)

====
